---- MODULE Spec2Model ----
(***************************************************************************)
(* Kernel version parsing and the installed-kernel inventory of            *)
(* toolkit/tools/internal/systemdependency and the kernel presence check   *)
(* of toolkit/tools/pkg/imagecustomizerlib.                                *)
(*                                                                         *)
(* A Go string is a sequence of one-character strings, so that the regular *)
(* expression, strings.TrimSpace and the directory sort are computed on    *)
(* characters.  A Go error is the sequence of its layers, outermost first  *)
(* (fmt.Errorf with %w prepends a layer); the nil error is <<>>.           *)
(***************************************************************************)
EXTENDS Integers, Sequences, FiniteSets, TLC

VARIABLES
    str,    \* the string handed to the parser / printed by "uname -r"
    va,     \* first operand of TolerantVersion.Compare
    vb,     \* second operand of TolerantVersion.Compare
    fs,     \* <rootfs>/lib/modules: directory name -> "empty" | "nonempty" | "unreadable"
    op,     \* the operation that ran last
    ret     \* what it returned

vars == <<str, va, vb, fs, op, ret>>

----------------------------------------------------------------------------
(* Bounds of the model *)

\* longest string enumerated exhaustively over ParseAlphabet
MaxLen == 6
\* most entries under <rootfs>/lib/modules
MaxEntries == 3
\* most segments of an enumerated TolerantVersion
MaxSegs == 3
\* largest segment value of an enumerated TolerantVersion
MaxSegVal == 2

----------------------------------------------------------------------------
(* Characters *)

Digits == {"0", "1", "2", "3", "4", "5", "6", "7", "8", "9"}

UpperLetters ==
    {"A", "B", "C", "D", "E", "F", "G", "H", "I", "J", "K", "L", "M",
     "N", "O", "P", "Q", "R", "S", "T", "U", "V", "W", "X", "Y", "Z"}

LowerLetters ==
    {"a", "b", "c", "d", "e", "f", "g", "h", "i", "j", "k", "l", "m",
     "n", "o", "p", "q", "r", "s", "t", "u", "v", "w", "x", "y", "z"}

\* [.\-]
SeparatorChars == {".", "-"}

\* [a-zA-Z0-9_.\-]
SuffixChars == LowerLetters \cup UpperLetters \cup Digits \cup {"_", ".", "-"}

\* the ASCII white space strings.TrimSpace removes
WhiteSpace == {" ", "\t", "\n", "\r"}

DigitVal(c) ==
    CASE c = "0" -> 0 [] c = "1" -> 1 [] c = "2" -> 2 [] c = "3" -> 3
      [] c = "4" -> 4 [] c = "5" -> 5 [] c = "6" -> 6 [] c = "7" -> 7
      [] c = "8" -> 8 [] c = "9" -> 9

\* the characters of file names in byte order
AsciiOrder ==
    <<"+", "-", ".",
      "0", "1", "2", "3", "4", "5", "6", "7", "8", "9",
      "A", "B", "C", "D", "E", "F", "G", "H", "I", "J", "K", "L", "M",
      "N", "O", "P", "Q", "R", "S", "T", "U", "V", "W", "X", "Y", "Z",
      "_",
      "a", "b", "c", "d", "e", "f", "g", "h", "i", "j", "k", "l", "m",
      "n", "o", "p", "q", "r", "s", "t", "u", "v", "w", "x", "y", "z">>

CharCode(c) == CHOOSE i \in 1..Len(AsciiOrder) : AsciiOrder[i] = c

----------------------------------------------------------------------------
(* Errors *)

NoError == <<>>

Layer(msg, arg) == [msg |-> msg, arg |-> arg]

\* fmt.Errorf("...:\n%w", err)
Wrap(msg, arg, err) == <<Layer(msg, arg)>> \o err

\* the errors of the operating system, opaque to this code
ExecError == <<Layer("exec: uname failed", <<>>)>>
ReadDirError == <<Layer("open lib/modules: no such file or directory", <<>>)>>
DirEmptyError(name) == <<Layer("open: permission denied", name)>>

----------------------------------------------------------------------------
(* versioncompare.TolerantVersion *)

\* the decimal value of a run of digits
RECURSIVE ParseUint(_)
ParseUint(ds) ==
    IF ds = <<>> THEN 0
    ELSE 10 * ParseUint(SubSeq(ds, 1, Len(ds) - 1)) + DigitVal(ds[Len(ds)])

\* strings.Split(s, ".")
RECURSIVE SplitDots(_)
SplitDots(s) ==
    IF \A i \in 1..Len(s) : s[i] # "."
    THEN <<s>>
    ELSE LET i == CHOOSE k \in 1..Len(s) :
                      s[k] = "." /\ \A j \in 1..(k - 1) : s[j] # "."
         IN  <<SubSeq(s, 1, i - 1)>> \o SplitDots(SubSeq(s, i + 1, Len(s)))

\* versioncompare.New: the segments of a dot-separated numeric string
New(s) == LET parts == SplitDots(s)
          IN  [i \in 1..Len(parts) |-> ParseUint(parts[i])]

Seg(v, i) == IF i <= Len(v) THEN v[i] ELSE 0

MaxOf(x, y) == IF x >= y THEN x ELSE y

RECURSIVE CompareFrom(_, _, _)
CompareFrom(a, b, i) ==
    IF i > MaxOf(Len(a), Len(b)) THEN 0
    ELSE IF Seg(a, i) < Seg(b, i) THEN -1
    ELSE IF Seg(a, i) > Seg(b, i) THEN 1
    ELSE CompareFrom(a, b, i + 1)

\* Compare without the padding: the shorter of two versions that agree on
\* their common positions is the lesser
RECURSIVE Compare_noPadding(_, _)
Compare_noPadding(a, b) ==
    IF a = <<>> /\ b = <<>> THEN 0
    ELSE IF a = <<>> THEN -1
    ELSE IF b = <<>> THEN 1
    ELSE IF Head(a) < Head(b) THEN -1
    ELSE IF Head(a) > Head(b) THEN 1
    ELSE Compare_noPadding(Tail(a), Tail(b))

\* a.Compare(b): -1, 0 or 1
Compare(a, b) == CompareFrom(a, b, 1)

----------------------------------------------------------------------------
(* kernelVersionRegex and parseKernelVersion *)

\* the index after the longest run of digits that starts at i: \d+ is greedy,
\* and giving a digit back never helps, since a digit matches neither \. nor
\* [.\-] nor $
RECURSIVE DigitRunEnd(_, _)
DigitRunEnd(s, i) ==
    IF i <= Len(s) /\ s[i] \in Digits THEN DigitRunEnd(s, i + 1) ELSE i

\* the index after the leading run \d+(\.\d+)* of s that starts at i
RECURSIVE NumericRunEnd(_, _)
NumericRunEnd(s, i) ==
    LET e == DigitRunEnd(s, i)
    IN  IF e = i THEN i - 1
        ELSE IF e <= Len(s) /\ s[e] = "." /\ DigitRunEnd(s, e + 1) > e + 1
        THEN NumericRunEnd(s, e + 1)
        ELSE e

\* the index after \d+\.\d+\.\d+ matched at the start of s, 0 when it does not match
Group1End(s) ==
    LET e1 == DigitRunEnd(s, 1)
        e2 == DigitRunEnd(s, e1 + 1)
        e3 == DigitRunEnd(s, e2 + 1)
    IN  IF /\ e1 > 1
           /\ e1 <= Len(s) /\ s[e1] = "."
           /\ e2 > e1 + 1
           /\ e2 <= Len(s) /\ s[e2] = "."
           /\ e3 > e2 + 1
        THEN e3 ELSE 0

\* ([.\-][a-zA-Z0-9_.\-]*)?$ matched from index i to the end of s
SuffixMatches(s, i) ==
    \/ i = Len(s) + 1
    \/ /\ i <= Len(s)
       /\ s[i] \in SeparatorChars
       /\ \A j \in (i + 1)..Len(s) : s[j] \in SuffixChars

NoMatch == [matched |-> FALSE, group1 |-> <<>>, group2 |-> <<>>]

\* the expression with (\d+(\.\d+)*) for its first group
kernelVersionRegex_wholeRun(s) ==
    LET e == NumericRunEnd(s, 1)
    IN  IF Group1End(s) > 0 /\ SuffixMatches(s, e)
        THEN [matched |-> TRUE,
              group1 |-> SubSeq(s, 1, e - 1),
              group2 |-> SubSeq(s, e, Len(s))]
        ELSE NoMatch

\* the expression without its closing $
kernelVersionRegex_unanchored(s) ==
    LET e == Group1End(s)
    IN  IF e > 0
        THEN [matched |-> TRUE,
              group1 |-> SubSeq(s, 1, e - 1),
              group2 |-> <<>>]
        ELSE NoMatch

\* kernelVersionRegex.FindStringSubmatch(s)
kernelVersionRegex(s) ==
    LET e == Group1End(s)
    IN  IF e > 0 /\ SuffixMatches(s, e)
        THEN [matched |-> TRUE,
              group1 |-> SubSeq(s, 1, e - 1),
              group2 |-> SubSeq(s, e, Len(s))]
        ELSE NoMatch

ErrParse == "failed to parse kernel version"

\* parseKernelVersion(versionString): [err, version]
parseKernelVersion(versionString) ==
    LET match == kernelVersionRegex(versionString)
    IN  IF ~match.matched
        THEN [err |-> <<Layer(ErrParse, versionString)>>, version |-> <<>>]
        ELSE [err |-> NoError, version |-> New(match.group1)]

\* strings.TrimSpace
RECURSIVE TrimLeft(_)
TrimLeft(s) ==
    IF s # <<>> /\ Head(s) \in WhiteSpace THEN TrimLeft(Tail(s)) ELSE s

RECURSIVE TrimRight(_)
TrimRight(s) ==
    IF s # <<>> /\ s[Len(s)] \in WhiteSpace
    THEN TrimRight(SubSeq(s, 1, Len(s) - 1)) ELSE s

TrimSpace(s) == TrimRight(TrimLeft(s))

ErrUname == "failed to get kernel version using uname"

\* GetBuildHostKernelVersion without the call of strings.TrimSpace
GetBuildHostKernelVersion_noTrim(stdout, execErr) ==
    IF execErr # NoError
    THEN [err |-> Wrap(ErrUname, <<>>, execErr), version |-> <<>>]
    ELSE LET parsed == parseKernelVersion(stdout)
         IN  IF parsed.err # NoError
             THEN [err |-> parsed.err, version |-> <<>>]
             ELSE [err |-> NoError, version |-> parsed.version]

\* GetBuildHostKernelVersion, given what shell.Execute("uname", "-r") returned
GetBuildHostKernelVersion(stdout, execErr) ==
    IF execErr # NoError
    THEN [err |-> Wrap(ErrUname, <<>>, execErr), version |-> <<>>]
    ELSE LET parsed == parseKernelVersion(TrimSpace(stdout))
         IN  IF parsed.err # NoError
             THEN [err |-> parsed.err, version |-> <<>>]
             ELSE [err |-> NoError, version |-> parsed.version]

----------------------------------------------------------------------------
(* The kernel inventory *)

\* a < b as Go compares strings: byte by byte, a proper prefix first
RECURSIVE StrLess(_, _)
StrLess(a, b) ==
    IF b = <<>> THEN FALSE
    ELSE IF a = <<>> THEN TRUE
    ELSE IF Head(a) # Head(b) THEN CharCode(Head(a)) < CharCode(Head(b))
    ELSE StrLess(Tail(a), Tail(b))

\* os.ReadDir: the names of the entries of a directory, sorted by file name
RECURSIVE ReadDir(_)
ReadDir(names) ==
    IF names = {} THEN <<>>
    ELSE LET first == CHOOSE n \in names :
                          \A m \in names \ {n} : StrLess(n, m)
         IN  <<first>> \o ReadDir(names \ {first})

ErrEnumerate == "failed to enumerate kernels under"
ErrDirEmpty == "failed to check if directory is empty"

\* the loop of GetInstalledKernelStringVersions over kernelDirs[i..],
\* filtered holding the names kept so far; file.IsDirEmpty is read off dirs
RECURSIVE FilterKernelDirs(_, _, _, _)
FilterKernelDirs(dirs, kernelDirs, i, filtered) ==
    IF i > Len(kernelDirs) THEN [err |-> NoError, names |-> filtered]
    ELSE LET name == kernelDirs[i]
         IN  IF dirs[name] = "unreadable"
             THEN [err |-> Wrap(ErrDirEmpty, name, DirEmptyError(name)),
                   names |-> <<>>]
             ELSE FilterKernelDirs(dirs, kernelDirs, i + 1,
                      IF dirs[name] # "empty" THEN Append(filtered, name)
                                                ELSE filtered)

\* GetInstalledKernelStringVersions without the filter
GetInstalledKernelStringVersions_noFilter(dirs, readDirErr) ==
    IF readDirErr # NoError
    THEN [err |-> Wrap(ErrEnumerate, <<>>, readDirErr), names |-> <<>>]
    ELSE IF \E n \in DOMAIN dirs : dirs[n] = "unreadable"
    THEN FilterKernelDirs(dirs, ReadDir(DOMAIN dirs), 1, <<>>)
    ELSE [err |-> NoError, names |-> ReadDir(DOMAIN dirs)]

\* GetInstalledKernelStringVersions(rootfs): [err, names]; readDirErr is the
\* error os.ReadDir returned for <rootfs>/lib/modules
GetInstalledKernelStringVersions(dirs, readDirErr) ==
    IF readDirErr # NoError
    THEN [err |-> Wrap(ErrEnumerate, <<>>, readDirErr), names |-> <<>>]
    ELSE FilterKernelDirs(dirs, ReadDir(DOMAIN dirs), 1, <<>>)

\* the loop skipping the names that do not parse
RECURSIVE ParseVersionStrings_skip(_, _, _)
ParseVersionStrings_skip(versionStrings, i, versions) ==
    IF i > Len(versionStrings) THEN [err |-> NoError, versions |-> versions]
    ELSE LET parsed == parseKernelVersion(versionStrings[i])
         IN  ParseVersionStrings_skip(versionStrings, i + 1,
                 IF parsed.err # NoError THEN versions
                 ELSE Append(versions, parsed.version))

\* the loop of GetInstalledKernelVersions over versionStrings[i..]
RECURSIVE ParseVersionStrings(_, _, _)
ParseVersionStrings(versionStrings, i, versions) ==
    IF i > Len(versionStrings) THEN [err |-> NoError, versions |-> versions]
    ELSE LET parsed == parseKernelVersion(versionStrings[i])
         IN  IF parsed.err # NoError
             THEN [err |-> parsed.err, versions |-> <<>>]
             ELSE ParseVersionStrings(versionStrings, i + 1,
                                      Append(versions, parsed.version))

\* GetInstalledKernelVersions taking a failed scan for an empty one
GetInstalledKernelVersions_swallow(dirs, readDirErr) ==
    LET scanned == GetInstalledKernelStringVersions(dirs, readDirErr)
    IN  IF scanned.err # NoError
        THEN [err |-> NoError, versions |-> <<>>]
        ELSE ParseVersionStrings(scanned.names, 1, <<>>)

\* GetInstalledKernelVersions(rootfs): [err, versions]
GetInstalledKernelVersions(dirs, readDirErr) ==
    LET scanned == GetInstalledKernelStringVersions(dirs, readDirErr)
    IN  IF scanned.err # NoError
        THEN [err |-> Wrap(ErrUname, <<>>, scanned.err), versions |-> <<>>]
        ELSE ParseVersionStrings(scanned.names, 1, <<>>)

\* the loop keeping the greater version
ReplacesOldest_greater(version, oldestVersion) ==
    Compare(version, oldestVersion) > 0

\* the loop replacing oldestVersion by an equal version too
ReplacesOldest_orEqual(version, oldestVersion) ==
    Compare(version, oldestVersion) <= 0

\* whether the loop of GetOldestInstalledKernelVersion replaces oldestVersion
ReplacesOldest(version, oldestVersion) == Compare(version, oldestVersion) < 0

\* the loop of GetOldestInstalledKernelVersion over versions[i..]; the
\* pointer oldestVersion is the index of the element it points to
RECURSIVE ScanOldest(_, _, _)
ScanOldest(versions, i, oldest) ==
    IF i > Len(versions) THEN oldest
    ELSE ScanOldest(versions, i + 1,
             IF ReplacesOldest(versions[i], versions[oldest]) THEN i ELSE oldest)

ErrNoKernelsInImage == "no installed kernels found in image"

\* GetOldestInstalledKernelVersion(rootfs): [err, versions, oldest]; oldest is
\* the index in versions of the element returned, 0 for the nil pointer
GetOldestInstalledKernelVersion(dirs, readDirErr) ==
    LET got == GetInstalledKernelVersions(dirs, readDirErr)
    IN  IF got.err # NoError
        THEN [err |-> got.err, versions |-> <<>>, oldest |-> 0]
        ELSE IF Len(got.versions) <= 0
        THEN [err |-> <<Layer(ErrNoKernelsInImage, <<>>)>>,
              versions |-> <<>>, oldest |-> 0]
        ELSE [err |-> NoError, versions |-> got.versions,
              oldest |-> ScanOldest(got.versions, 1, 1)]

ErrNoInstalledKernel == "no installed kernel found"

\* checkForInstalledKernel counting the kernels whose names parse
checkForInstalledKernel_parsed(dirs, readDirErr) ==
    LET kernels == GetInstalledKernelVersions(dirs, readDirErr)
    IN  IF kernels.err # NoError THEN kernels.err
        ELSE IF Len(kernels.versions) <= 0
        THEN <<Layer(ErrNoInstalledKernel, <<>>)>>
        ELSE NoError

\* checkForInstalledKernel(imageChroot): the error returned
checkForInstalledKernel(dirs, readDirErr) ==
    LET kernels == GetInstalledKernelStringVersions(dirs, readDirErr)
    IN  IF kernels.err # NoError THEN kernels.err
        ELSE IF Len(kernels.names) <= 0
        THEN <<Layer(ErrNoInstalledKernel, <<>>)>>
        ELSE NoError

----------------------------------------------------------------------------
(* Inputs *)

\* the examples documented with kernelVersionRegex
Fedora40 == <<"6", ".", "1", "1", ".", "6", "-", "2", "0", "0", ".", "f", "c", "4", "0", ".", "x", "8", "6", "_", "6", "4">>
Ubuntu2204 == <<"6", ".", "8", ".", "0", "-", "4", "8", "-", "g", "e", "n", "e", "r", "i", "c">>
AzureLinux2 == <<"5", ".", "1", "5", ".", "1", "5", "3", ".", "1", "-", "2", ".", "c", "m", "2">>
AzureLinux3 == <<"6", ".", "6", ".", "4", "7", ".", "1", "-", "1", ".", "a", "z", "l", "3">>

\* a later build of the Azure Linux 2.0 kernel
AzureLinux2b == <<"5", ".", "1", "5", ".", "1", "5", "3", ".", "2", "-", "1", ".", "c", "m", "2">>
\* sorts before every other name as a string, and is the newest as a version
Release10 == <<"1", "0", ".", "0", ".", "1", "-", "r", "c", "1">>
\* names that are no kernel version for kernelVersionRegex
PlusBuild == <<"6", ".", "1", ".", "0", "+">>
Fc40 == <<"f", "c", "4", "0">>
\* what "uname -r" prints: the version and a newline
UnameOutput == Ubuntu2204 \o <<"\n">>

Examples ==
    {Fedora40, Ubuntu2204, AzureLinux2, AzureLinux3, AzureLinux2b, Release10,
     PlusBuild, Fc40, UnameOutput}

ParseAlphabet == {"6", ".", "-", "g", "+", " "}

\* every string of at most MaxLen characters of ParseAlphabet, and the examples
ParseInputs ==
    Examples \cup UNION {[1..n -> ParseAlphabet] : n \in 0..MaxLen}

\* the names an entry of <rootfs>/lib/modules can have
KernelNames ==
    {Fedora40, Ubuntu2204, AzureLinux2, AzureLinux3, AzureLinux2b, Release10,
     PlusBuild, Fc40}

DirStates == {"empty", "nonempty", "unreadable"}

\* every <rootfs>/lib/modules of at most MaxEntries entries
FileSystems ==
    UNION {[D -> DirStates] :
              D \in {X \in SUBSET KernelNames : Cardinality(X) <= MaxEntries}}

ExampleVersions ==
    {<<5, 15>>, <<5, 15, 0>>, <<6, 11, 6>>, <<5, 15, 153, 1>>,
     <<6, 6, 47, 1>>, <<6, 8, 0>>, <<10>>, <<9>>}

\* every TolerantVersion of at most MaxSegs segments of at most MaxSegVal, and the examples
Versions ==
    ExampleVersions \cup UNION {[1..n -> 0..MaxSegVal] : n \in 0..MaxSegs}

----------------------------------------------------------------------------
(* The state machine: one action per function, called on the current input *)

NoRet ==
    [err |-> NoError, version |-> <<>>, names |-> <<>>, versions |-> <<>>,
     oldest |-> 0, cmp |-> 0, io |-> NoError]

NoFileSystem == [n \in {} |-> "empty"]

\* parseKernelVersion(str)
Call_parseKernelVersion ==
    /\ op' = "parseKernelVersion"
    /\ LET r == parseKernelVersion(str)
       IN  ret' = [NoRet EXCEPT !.err = r.err, !.version = r.version]
    /\ UNCHANGED <<str, va, vb, fs>>

\* GetBuildHostKernelVersion() on a host whose "uname -r" prints str, or fails
Call_GetBuildHostKernelVersion ==
    \E execErr \in {NoError, ExecError} :
        /\ op' = "GetBuildHostKernelVersion"
        /\ LET r == GetBuildHostKernelVersion(str, execErr)
           IN  ret' = [NoRet EXCEPT !.err = r.err, !.version = r.version,
                                    !.io = execErr]
        /\ UNCHANGED <<str, va, vb, fs>>

\* va.Compare(vb)
Call_Compare ==
    /\ op' = "Compare"
    /\ ret' = [NoRet EXCEPT !.cmp = Compare(va, vb)]
    /\ UNCHANGED <<str, va, vb, fs>>

\* vb.Compare(va)
Call_CompareSwapped ==
    /\ op' = "CompareSwapped"
    /\ ret' = [NoRet EXCEPT !.cmp = Compare(vb, va)]
    /\ UNCHANGED <<str, va, vb, fs>>

\* GetInstalledKernelStringVersions(rootfs)
Call_GetInstalledKernelStringVersions ==
    \E readDirErr \in {NoError, ReadDirError} :
        /\ op' = "GetInstalledKernelStringVersions"
        /\ LET r == GetInstalledKernelStringVersions(fs, readDirErr)
           IN  ret' = [NoRet EXCEPT !.err = r.err, !.names = r.names,
                                    !.io = readDirErr]
        /\ UNCHANGED <<str, va, vb, fs>>

\* GetInstalledKernelVersions(rootfs)
Call_GetInstalledKernelVersions ==
    \E readDirErr \in {NoError, ReadDirError} :
        /\ op' = "GetInstalledKernelVersions"
        /\ LET r == GetInstalledKernelVersions(fs, readDirErr)
           IN  ret' = [NoRet EXCEPT !.err = r.err, !.versions = r.versions,
                                    !.io = readDirErr]
        /\ UNCHANGED <<str, va, vb, fs>>

\* GetOldestInstalledKernelVersion(rootfs)
Call_GetOldestInstalledKernelVersion ==
    \E readDirErr \in {NoError, ReadDirError} :
        /\ op' = "GetOldestInstalledKernelVersion"
        /\ LET r == GetOldestInstalledKernelVersion(fs, readDirErr)
           IN  ret' = [NoRet EXCEPT
                           !.err = r.err, !.versions = r.versions,
                           !.oldest = r.oldest,
                           !.version = IF r.oldest = 0 THEN <<>>
                                       ELSE r.versions[r.oldest],
                           !.io = readDirErr]
        /\ UNCHANGED <<str, va, vb, fs>>

\* checkForInstalledKernel(imageChroot)
Call_checkForInstalledKernel ==
    \E readDirErr \in {NoError, ReadDirError} :
        /\ op' = "checkForInstalledKernel"
        /\ ret' = [NoRet EXCEPT !.err = checkForInstalledKernel(fs, readDirErr),
                                !.io = readDirErr]
        /\ UNCHANGED <<str, va, vb, fs>>

\* The inventory: a root file system, and the functions that scan it
Init ==
    /\ fs \in FileSystems
    /\ str = <<>> /\ va = <<>> /\ vb = <<>>
    /\ op = "init" /\ ret = NoRet

Next ==
    \/ Call_GetInstalledKernelStringVersions
    \/ Call_GetInstalledKernelVersions
    \/ Call_GetOldestInstalledKernelVersion
    \/ Call_checkForInstalledKernel

Spec == Init /\ [][Next]_vars

\* The parser: a string, and the functions that parse it
InitParse ==
    /\ str \in ParseInputs
    /\ fs = NoFileSystem /\ va = <<>> /\ vb = <<>>
    /\ op = "init" /\ ret = NoRet

NextParse ==
    \/ Call_parseKernelVersion
    \/ Call_GetBuildHostKernelVersion

SpecParse == InitParse /\ [][NextParse]_vars

\* The ordering: two versions, compared both ways
InitCompare ==
    /\ va \in Versions /\ vb \in Versions
    /\ fs = NoFileSystem /\ str = <<>>
    /\ op = "init" /\ ret = NoRet

NextCompare ==
    \/ Call_Compare
    \/ Call_CompareSwapped

SpecCompare == InitCompare /\ [][NextCompare]_vars

----------------------------------------------------------------------------
(* What the properties are stated with *)

\* s[i..j] is a non-empty run of digits
IsNumber(s, i, j) == i <= j /\ \A k \in i..j : s[k] \in Digits

\* the segments of the whole leading dot-separated numeric run of s
LeadingNumericRun(s) == New(SubSeq(s, 1, NumericRunEnd(s, 1) - 1))

StartsWithInteger(s) == s # <<>> /\ s[1] \in Digits

\* s from index k on is empty, or a separator and then suffix characters only
IsSuffix(s, k) ==
    \/ k = Len(s) + 1
    \/ /\ k <= Len(s) /\ s[k] \in SeparatorChars
       /\ \A m \in (k + 1)..Len(s) : s[m] \in SuffixChars

\* one or more dot-separated integers, then an optional suffix: the integers
\* after the first are themselves a separator and suffix characters
InSpecGrammar(s) ==
    \E k \in 2..(Len(s) + 1) : IsNumber(s, 1, k - 1) /\ IsSuffix(s, k)

\* exactly three dot-separated integers, then an optional suffix
InThreeSegmentGrammar(s) ==
    \E i, j \in 1..Len(s) : \E k \in 1..(Len(s) + 1) :
        /\ i < j /\ j < k
        /\ IsNumber(s, 1, i - 1) /\ s[i] = "."
        /\ IsNumber(s, i + 1, j - 1) /\ s[j] = "."
        /\ IsNumber(s, j + 1, k - 1)
        /\ IsSuffix(s, k)

\* s without its leading and trailing white space
Trimmed(s) ==
    LET body == {k \in 1..Len(s) : s[k] \notin WhiteSpace}
    IN  IF body = {} THEN <<>>
        ELSE SubSeq(s, CHOOSE i \in body : \A k \in body : i <= k,
                       CHOOSE j \in body : \A k \in body : k <= j)

\* the kinds of error
IsParseError(e) == Len(e) = 1 /\ e[1].msg = ErrParse
IsEmptyInventoryError(e) == e = <<Layer(ErrNoKernelsInImage, <<>>)>>
IsNoKernelInstalledError(e) == e = <<Layer(ErrNoInstalledKernel, <<>>)>>
IsHostQueryError(e) == e # NoError /\ e[1].msg = ErrUname
IsOSError(e) == e = ReadDirError \/ \E n \in KernelNames : e = DirEmptyError(n)
\* an error of the file system, wrapped by the scanner
IsIOError(e) ==
    \E i \in 1..Len(e) :
        /\ e[i].msg \in {ErrEnumerate, ErrDirEmpty}
        /\ IsOSError(SubSeq(e, i + 1, Len(e)))

\* the non-empty directories of fs
NonEmptyDirs == {n \in DOMAIN fs : fs[n] = "nonempty"}
\* the scan reads everything it needs
ScanSucceeds == ret.io = NoError /\ \A n \in DOMAIN fs : fs[n] # "unreadable"
\* s holds its elements in the order of the listing, each once
InListingOrder(s) == \A i, j \in 1..Len(s) : i < j => StrLess(s[i], s[j])
Parses(n) == parseKernelVersion(n).err = NoError

----------------------------------------------------------------------------
(* parseKernelVersion *)

\* C1 as stated: the segments of a parsed string are its whole leading
\* dot-separated numeric run
C1_WholeNumericRun ==
    (op = "parseKernelVersion" /\ ret.err = NoError)
        => ret.version = LeadingNumericRun(str)

\* C1, amended: the segments of a parsed string are the first three segments
\* of its leading numeric run, and everything after the third is discarded
C1_FirstThreeSegments ==
    (op = "parseKernelVersion" /\ ret.err = NoError) =>
        /\ Len(ret.version) = 3
        /\ Len(LeadingNumericRun(str)) >= 3
        /\ ret.version = SubSeq(LeadingNumericRun(str), 1, 3)
        /\ (str = Fedora40 => ret.version = <<6, 11, 6>>)
        /\ (str = Ubuntu2204 => ret.version = <<6, 8, 0>>)
        /\ (str = AzureLinux2 => ret.version = <<5, 15, 153>>)
        /\ (str = AzureLinux3 => ret.version = <<6, 6, 47>>)

C1_Witness ==
    /\ op = "parseKernelVersion" /\ str = AzureLinux2
    /\ ret.err = NoError /\ ret.version = <<5, 15, 153>>

\* C2 as stated: every string of one or more integer segments and an optional
\* suffix parses, and the strings that fail are those that do not start with
\* an integer
C2_OneOrMoreSegments ==
    op = "parseKernelVersion" =>
        /\ InSpecGrammar(str) => ret.err = NoError
        /\ ret.err # NoError <=> ~StartsWithInteger(str)

\* C2, amended: the strings that parse are those of exactly three integer
\* segments and an optional separator and suffix up to the end of the string;
\* every other string fails with the ParseError naming it
C2_ExactlyThreeSegments ==
    op = "parseKernelVersion" =>
        /\ ret.err = NoError <=> InThreeSegmentGrammar(str)
        /\ ret.err # NoError =>
              /\ ret.err = <<Layer(ErrParse, str)>>
              /\ ret.version = <<>>
        /\ ret.err = NoError => ret.version # <<>>
        /\ str \in {<<>>, Fc40, <<"6">>, <<"6", ".", "6">>, PlusBuild}
              => IsParseError(ret.err)

C2_Witness ==
    /\ op = "parseKernelVersion" /\ str = <<"6", ".", "6", "-", "g">>
    /\ IsParseError(ret.err)

----------------------------------------------------------------------------
(* GetBuildHostKernelVersion *)

\* C9 as stated: every failure of GetBuildHostKernelVersion is a
\* HostQueryError, also when the output of the host does not parse
C9_AlwaysHostQueryError ==
    (op = "GetBuildHostKernelVersion" /\ ret.err # NoError)
        => IsHostQueryError(ret.err)

\* C9, amended: the result is the parse of the trimmed output; a host that
\* cannot be queried gives a HostQueryError wrapping the cause, and output
\* that does not parse gives the parser's ParseError for the trimmed output
C9_TrimThenParse ==
    op = "GetBuildHostKernelVersion" =>
        IF ret.io # NoError
        THEN /\ IsHostQueryError(ret.err)
             /\ Tail(ret.err) = ret.io
             /\ ret.version = <<>>
        ELSE LET trimmed == Trimmed(str)
                 parsed == parseKernelVersion(trimmed)
             IN  /\ ret.err = parsed.err
                 /\ ret.version = parsed.version
                 /\ ret.err # NoError =>
                       /\ ret.err = <<Layer(ErrParse, trimmed)>>
                       /\ ~IsHostQueryError(ret.err)

C9_Witness ==
    /\ op = "GetBuildHostKernelVersion" /\ ret.io = NoError
    /\ str = UnameOutput /\ ret.err = NoError /\ ret.version = <<6, 8, 0>>

----------------------------------------------------------------------------
(* TolerantVersion.Compare *)

\* the positions at which a and b differ, a missing segment being 0
Differing(a, b) == {i \in 1..MaxOf(Len(a), Len(b)) : Seg(a, i) # Seg(b, i)}

\* the order of a and b, decided at the first position at which they differ
Order(a, b) ==
    IF Differing(a, b) = {} THEN 0
    ELSE LET i == CHOOSE k \in Differing(a, b) :
                      \A m \in Differing(a, b) : k <= m
         IN  IF Seg(a, i) < Seg(b, i) THEN -1 ELSE 1

\* C3: Compare is decided by the first position at which the segments differ
\* as integers, a missing segment being 0, and Compare(b, a) = -Compare(a, b)
C3_CompareFirstDifference ==
    /\ op = "Compare" =>
          /\ ret.cmp = Order(va, vb)
          /\ (va = <<5, 15>> /\ vb = <<5, 15, 0>>) => ret.cmp = 0
          /\ (va = <<6, 11, 6>> /\ vb = <<5, 15, 153, 1>>) => ret.cmp > 0
          /\ (va = <<6, 6, 47, 1>> /\ vb = <<6, 8, 0>>) => ret.cmp < 0
          /\ (va = <<10>> /\ vb = <<9>>) => ret.cmp > 0
    /\ op = "CompareSwapped" => ret.cmp = -Order(va, vb)

C3_Witness ==
    /\ op = "Compare" /\ va = <<5, 15>> /\ vb = <<5, 15, 0>> /\ ret.cmp = 0

----------------------------------------------------------------------------
(* The inventory *)

\* C5: when the listing and every emptiness check succeed, the scan returns
\* the names of the non-empty directories, each once and in listing order,
\* whether or not a name parses; with no non-empty directory it returns the
\* empty sequence and no error
C5_ExactlyNonEmptyDirs ==
    (op = "GetInstalledKernelStringVersions" /\ ScanSucceeds) =>
        /\ ret.err = NoError
        /\ {ret.names[i] : i \in 1..Len(ret.names)} = NonEmptyDirs
        /\ Len(ret.names) = Cardinality(NonEmptyDirs)
        /\ InListingOrder(ret.names)

C5_Witness ==
    /\ op = "GetInstalledKernelStringVersions" /\ ScanSucceeds
    /\ AzureLinux3 \in DOMAIN fs /\ fs[AzureLinux3] = "empty"
    /\ Fc40 \in DOMAIN fs /\ fs[Fc40] = "nonempty"
    /\ ret.names = <<Fedora40, Fc40>>

\* C6: checkForInstalledKernel returns "no installed kernel found" exactly
\* when the scan succeeds with no name, nil when the scan returns a name,
\* parsable or not, and the error of the scan when the scan fails
C6_GuardOnEmptyScan ==
    op = "checkForInstalledKernel" =>
        /\ IsNoKernelInstalledError(ret.err)
              <=> (ScanSucceeds /\ NonEmptyDirs = {})
        /\ (ScanSucceeds /\ NonEmptyDirs # {}) => ret.err = NoError
        /\ ~ScanSucceeds =>
              /\ IsIOError(ret.err)
              /\ ret.err = GetInstalledKernelStringVersions(fs, ret.io).err

C6_Witness ==
    /\ op = "checkForInstalledKernel" /\ ScanSucceeds
    /\ NonEmptyDirs = {Fc40, PlusBuild}
    /\ ret.err = NoError

\* the index of the first name of names that does not parse
FirstUnparsable(names) ==
    CHOOSE i \in 1..Len(names) :
        ~Parses(names[i]) /\ \A j \in 1..(i - 1) : Parses(names[j])

\* C7: GetInstalledKernelVersions returns the parse of every scanned name, in
\* order, or fails and returns no list: with the ParseError of the first
\* scanned name that does not parse, if there is one
C7_AllParsedOrFirstParseError ==
    op = "GetInstalledKernelVersions" =>
        LET scanned == GetInstalledKernelStringVersions(fs, ret.io)
        IN  /\ ret.err # NoError => ret.versions = <<>>
            /\ scanned.err # NoError => ret.err # NoError
            /\ scanned.err = NoError =>
                  IF \A i \in 1..Len(scanned.names) : Parses(scanned.names[i])
                  THEN /\ ret.err = NoError
                       /\ Len(ret.versions) = Len(scanned.names)
                       /\ \A i \in 1..Len(scanned.names) :
                              ret.versions[i] =
                                  parseKernelVersion(scanned.names[i]).version
                  ELSE ret.err =
                           <<Layer(ErrParse,
                                   scanned.names[FirstUnparsable(scanned.names)])>>

C7_Witness ==
    /\ op = "GetInstalledKernelVersions" /\ ScanSucceeds
    /\ NonEmptyDirs = {AzureLinux2, PlusBuild, Fc40}
    /\ ret.err = <<Layer(ErrParse, PlusBuild)>>

C4_ReturnsMinimum ==
    (/\ op = "GetOldestInstalledKernelVersion" /\ ScanSucceeds
     /\ NonEmptyDirs # {} /\ \A n \in NonEmptyDirs : Parses(n)) =>
        /\ ret.err = NoError
        /\ {ret.versions[i] : i \in 1..Len(ret.versions)}
              = {parseKernelVersion(n).version : n \in NonEmptyDirs}
        /\ ret.oldest \in 1..Len(ret.versions)
        /\ ret.version = ret.versions[ret.oldest]
        /\ \A i \in 1..Len(ret.versions) :
              Compare(ret.versions[i], ret.version) >= 0

C4_Witness ==
    /\ op = "GetOldestInstalledKernelVersion" /\ ScanSucceeds
    /\ NonEmptyDirs = {Fedora40, AzureLinux2}
    /\ AzureLinux3 \in DOMAIN fs /\ fs[AzureLinux3] = "empty"
    /\ ret.err = NoError /\ ret.version = <<5, 15, 153>>

\* C10: of the entries of the parsed list that compare equal to the minimum,
\* GetOldestInstalledKernelVersion returns the one earliest in scan order
C10_EarliestOfEqual ==
    (op = "GetOldestInstalledKernelVersion" /\ ret.err = NoError) =>
        \A i \in 1..Len(ret.versions) :
            Compare(ret.versions[i], ret.versions[ret.oldest]) = 0
                => ret.oldest <= i

C10_Witness ==
    /\ op = "GetOldestInstalledKernelVersion" /\ ScanSucceeds
    /\ NonEmptyDirs = {Release10, AzureLinux2, AzureLinux2b}
    /\ ret.err = NoError /\ ret.oldest = 2
    /\ Compare(ret.versions[3], ret.versions[2]) = 0

====
